---- MODULE Spec2Model ----
(***************************************************************************)
(* Model of the download orchestration of smartedu_downloader              *)
(* (src/src/main.rs): the spawning loop of main with its semaphore, one    *)
(* process_single_task per download item (metadata resolution, validation  *)
(* of an existing file, download_file with its retry loop, validation of   *)
(* the downloaded file) and process_download_results.                      *)
(*                                                                         *)
(* The remote server, the file system and the runtime are the environment: *)
(* every response, every I/O result and a panic of a task are chosen       *)
(* nondeterministically.  A file is the sequence of the chunks written to  *)
(* it; a chunk counts one unit of size.                                    *)
(***************************************************************************)
EXTENDS Integers, Sequences, FiniteSets, TLC

\* ---------------------------------------------------------------- constants
MAX_RETRIES == 3
RETRY_BASE_DELAY_MS == 500

\* ------------------------------------------------------------------- bounds
MaxItems == 2
MaxLimit == 2

\* Option::None of expected_md5 / expected_size (digests and sizes are >= 0).
None == 0 - 1

\* File names the metadata endpoint may resolve an item to.
Filenames == {"a.pdf", "b_.pdf"}
\* Response bodies the download endpoint may deliver (sequences of chunks).
Bodies == {<<1>>, <<2>>, <<1, 2>>}
\* Contents of a destination file before the run.
InitialContents == {<<1>>, <<1, 2>>}
\* The file name that may exist before the run (the other one does not).
OldFilename == "a.pdf"

AbsentFile == [exists |-> FALSE, data |-> <<>>]
FileOf(data) == [exists |-> TRUE, data |-> data]

\* ------------------------------------------------------------ pure helpers
\* calculate_file_md5: the digest of a file's content; distinct contents of
\* the model have distinct digests (chunks are 1 or 2, read as base-3 digits).
RECURSIVE calculate_file_md5(_)
calculate_file_md5(data) ==
    IF data = <<>> THEN 0
    ELSE Head(data) + 3 * calculate_file_md5(Tail(data))

\* fs::metadata(path).len()
FileLen(data) == Len(data)

\* Mutant of validate_local_file: a matching checksum counts only if the
\* expected size, when present, matches too.
validate_local_file_BothMustMatch(file, info) ==
    IF ~file.exists THEN "SizeValidationFailed"
    ELSE IF info.expected_md5 # None
            /\ calculate_file_md5(file.data) = info.expected_md5
            /\ (info.expected_size = None \/ FileLen(file.data) = info.expected_size)
         THEN "Success"
    ELSE IF info.expected_md5 = None /\ info.expected_size # None
            /\ FileLen(file.data) = info.expected_size THEN "Success"
    ELSE IF info.expected_md5 = None /\ info.expected_size = None
         THEN "SuccessNoValidation"
    ELSE IF info.expected_md5 # None THEN "Md5ValidationFailed"
    ELSE "SizeValidationFailed"

\* Mutant of validate_local_file: the test that the path exists is missing,
\* and a missing file reads as an empty one.
validate_local_file_NoExistsTest(file, info) ==
    IF info.expected_md5 # None
          /\ calculate_file_md5(file.data) = info.expected_md5 THEN "Success"
    ELSE IF info.expected_size # None
            /\ FileLen(file.data) = info.expected_size THEN "Success"
    ELSE IF info.expected_md5 = None /\ info.expected_size = None
         THEN "SuccessNoValidation"
    ELSE IF info.expected_md5 # None THEN "Md5ValidationFailed"
    ELSE "SizeValidationFailed"

\* validate_local_file (the file is readable: calculate_file_md5 and
\* fs::metadata return Ok).
validate_local_file(file, info) ==
    IF ~file.exists THEN "SizeValidationFailed"
    ELSE IF info.expected_md5 # None
            /\ calculate_file_md5(file.data) = info.expected_md5 THEN "Success"
    ELSE IF info.expected_size # None
            /\ FileLen(file.data) = info.expected_size THEN "Success"
    ELSE IF info.expected_md5 = None /\ info.expected_size = None
         THEN "SuccessNoValidation"
    ELSE IF info.expected_md5 # None THEN "Md5ValidationFailed"
    ELSE "SizeValidationFailed"

\* Mutant of wait_time: the exponent is the loop index itself.
wait_time_IndexExponent(attempt) == RETRY_BASE_DELAY_MS * 2 ^ attempt

\* Duration slept before the request of loop index attempt (attempt > 0).
wait_time(attempt) == RETRY_BASE_DELAY_MS * 2 ^ (attempt - 1)

NoDetails == [filename |-> "", expected_md5 |-> None, expected_size |-> None]
\* What get_textbook_details returns on success, over MetaResponses.
DetailsSet == [filename : Filenames,
               expected_md5 : {None, calculate_file_md5(<<1>>)},
               expected_size : {None, 1}]

\* ------------------------------------------------- the metadata endpoint
\* Titles of textbooks, and storage URLs given by their last path component.
Titles == {"a", "b?"}
Storages == {"pdf.pdf", "a.pdf", "b_"}

\* The parsed body of a details response: the title and, of the first
\* ti_item with ti_file_flag "source" and ti_format "pdf" (source_pdf says
\* whether there is one), the storages, checksum and size.
MetaBodies ==
    [title : Titles,
     source_pdf : BOOLEAN,
     ti_storages : {<<>>, <<"a.pdf", "pdf.pdf">>} \cup {<<u>> : u \in Storages},
     ti_md5 : {None, calculate_file_md5(<<1>>)},
     ti_size : {None, 1}]

NoBody == [title |-> "", source_pdf |-> FALSE, ti_storages |-> <<>>,
           ti_md5 |-> None, ti_size |-> None]

\* Outcomes of the one GET of get_textbook_details: a transport error of
\* send(), an error status, a body that is not the expected JSON, or a body.
MetaResponses ==
    {[kind |-> k, body |-> NoBody] :
        k \in {"transport_error", "status_error", "decode_error"}}
      \cup {[kind |-> "ok", body |-> b] : b \in MetaBodies}

\* name.to_lowercase().ends_with(suffix), for the names of the model.
EndsWithPdfPdf(name) == name = "pdf.pdf"
EndsWithPdf(name) == name \in {"pdf.pdf", "a.pdf", "b_.pdf", "b?.pdf"}

\* FILENAME_REGEX.replace_all(filename, "_"), for the names of the model.
sanitize_filename(filename) ==
    IF filename = "b?.pdf" THEN "b_.pdf" ELSE filename

DetailsOk(info) == [ok |-> TRUE, info |-> info]
DetailsErr == [ok |-> FALSE, info |-> NoDetails]

\* get_textbook_details on the response resp of its request.  (Every storage
\* URL of the model has a last path component, so the fallback to the
\* content_id is not taken.)
get_textbook_details(content_id, resp) ==
    IF resp.kind # "ok" THEN DetailsErr
    ELSE IF ~resp.body.source_pdf THEN DetailsErr
    ELSE IF resp.body.ti_storages = <<>> THEN DetailsErr
    ELSE LET pdf_url_base == Head(resp.body.ti_storages)
             is_pdf_pdf == EndsWithPdfPdf(pdf_url_base)
             name == IF is_pdf_pdf THEN resp.body.title ELSE pdf_url_base
             final_filename == IF EndsWithPdf(name) THEN name ELSE name \o ".pdf"
         IN  DetailsOk([filename |-> sanitize_filename(final_filename),
                        expected_md5 |-> IF is_pdf_pdf THEN None ELSE resp.body.ti_md5,
                        expected_size |-> resp.body.ti_size])

\* ------------------------------------------------------------------- state
VARIABLES
    limit,           \* Cli::max_concurrent_downloads
    download_items,  \* the items collected by collect_download_items
    fs0,             \* the destination directory before the run
    fs,              \* the destination directory: file name -> file
    permits,         \* free permits of the semaphore
    spawned,         \* number of items the spawning loop has passed
    task,            \* per item: the state of its spawned task
    mainPc,          \* "spawn" | "done"
    results,         \* what join_all returned
    summary,         \* what process_download_results reported
    cli,             \* the input sources of the command line
    probe            \* one call of validate_local_file: file, info, status

vars == <<limit, download_items, fs0, fs, permits, spawned, task, mainPc,
          results, summary, cli, probe>>

Items == 1 .. Len(download_items)

\* pc: idle (not spawned) | start | resolved | backoff | request | create |
\*     stream | written | done | panicked.
\* details, attempt, last_error and wrote (the chunks the current attempt
\* wrote) are the locals of process_single_task and download_file (at "done",
\* last_error is the error the retry block ended with).  requests, slept,
\* got401 and released are history: the transfer requests issued, the
\* backoff sleeps taken (ms), whether a 401 was received, and how often the
\* task's permit was dropped; meta_requests and meta are the metadata
\* requests issued and how the last one ended (none | ok | failed).
IdleTask == [pc |-> "idle", details |-> NoDetails, attempt |-> 0,
             last_error |-> "none", status |-> "none", requests |-> 0,
             slept |-> <<>>, got401 |-> FALSE, wrote |-> <<>>,
             released |-> 0, meta_requests |-> 0, meta |-> "none"]

NoSummary == [total |-> None, successful |-> None, skipped |-> None,
              failed |-> None, skipped_details |-> <<>>,
              failed_details |-> <<>>]

\* The run of the tasks starts from a collected list; the command line and
\* the validation probe play no part in it.
NoCli == [url |-> <<>>, content_id |-> <<>>, input_file |-> "none", lines |-> <<>>]
NoProbe == [file |-> AbsentFile, info |-> NoDetails, status |-> "none"]

\* A list as collect_download_items returns it: non-empty, distinct ids.
ItemList(n) == [k \in 1 .. n |-> [id |-> k, original |-> k]]

Init ==
    /\ limit \in 1 .. MaxLimit
    /\ download_items \in {ItemList(n) : n \in 1 .. MaxItems}
    /\ fs0 \in {[f \in Filenames |-> IF f = OldFilename THEN old ELSE AbsentFile] :
                  old \in {AbsentFile} \cup {FileOf(c) : c \in InitialContents}}
    /\ fs = fs0
    /\ permits = limit
    /\ spawned = 0
    /\ task = [i \in Items |-> IdleTask]
    /\ mainPc = "spawn"
    /\ results = <<>>
    /\ summary = NoSummary
    /\ cli = NoCli
    /\ probe = NoProbe

Live(t) == t.pc \notin {"idle", "done", "panicked"}
Terminal(t) == t.pc \in {"done", "panicked"}

\* Mutant of Spawn: the task is spawned without waiting for a permit.
Spawn_NoAcquire ==
    /\ mainPc = "spawn"
    /\ spawned < Len(download_items)
    /\ permits' = permits
    /\ spawned' = spawned + 1
    /\ task' = [task EXCEPT ![spawned + 1].pc = "start"]
    /\ UNCHANGED <<limit, download_items, fs0, fs, mainPc, results, summary,
                   cli, probe>>

\* Mutant of Spawn: the permit goes to any item not yet spawned.
Spawn_AnyOrder ==
    /\ mainPc = "spawn"
    /\ spawned < Len(download_items)
    /\ permits > 0
    /\ permits' = permits - 1
    /\ spawned' = spawned + 1
    /\ \E i \in Items :
         /\ task[i].pc = "idle"
         /\ task' = [task EXCEPT ![i].pc = "start"]
    /\ UNCHANGED <<limit, download_items, fs0, fs, mainPc, results, summary,
                   cli, probe>>

\* ------------------------------------------------------ main: spawning loop
\* semaphore.acquire_owned().await, then tokio::spawn of the task that owns
\* the permit.
Spawn ==
    /\ mainPc = "spawn"
    /\ spawned < Len(download_items)
    /\ permits > 0
    /\ permits' = permits - 1
    /\ spawned' = spawned + 1
    /\ task' = [task EXCEPT ![spawned + 1].pc = "start"]
    /\ UNCHANGED <<limit, download_items, fs0, fs, mainPc, results, summary,
                   cli, probe>>

\* Mutant of ReleaseOn: a task never gives its permit back.
ReleaseOn_Never(t2) == 0

\* Mutant of ReleaseOn: the permit is dropped only by the explicit
\* drop(permit), a panicking task keeps it.
ReleaseOn_ExplicitDropOnly(t2) == IF t2.pc = "done" THEN 1 ELSE 0

\* ------------------------------------------------------------ spawned task
\* Permits given back when the task's future reaches state t2: drop(permit)
\* after process_single_task returned, or the drop of the captured permit
\* when a panic unwinds the future.
ReleaseOn(t2) == IF Terminal(t2) THEN 1 ELSE 0

\* One step of the task of item i, leading to task state t2.
TaskStep(i, t2) ==
    /\ task' = [task EXCEPT ![i] = [t2 EXCEPT !.released = @ + ReleaseOn(t2)]]
    /\ permits' = permits + ReleaseOn(t2)
    /\ UNCHANGED <<limit, download_items, fs0, mainPc, spawned, results, summary,
                   cli, probe>>

\* The locals of a task that has ended are gone; the file name stays in the
\* tuple process_single_task returns, last_error in the message
\* download_file prints.
Dropped(t) ==
    [t EXCEPT !.details = [NoDetails EXCEPT !.filename = t.details.filename],
              !.attempt = 0, !.wrote = <<>>]

Return(t, st) == [Dropped(t) EXCEPT !.pc = "done", !.status = st]

\* Mutant of Resolve: a failed metadata request is repeated once.
Resolve_RetryOnce(i) ==
    /\ task[i].pc = "start"
    /\ \E resp \in MetaResponses :
         LET r == get_textbook_details(download_items[i].id, resp)
             t == [task[i] EXCEPT !.meta_requests = @ + 1,
                                  !.meta = IF r.ok THEN "ok" ELSE "failed"]
         IN  IF r.ok
             THEN TaskStep(i, [t EXCEPT !.pc = "resolved", !.details = r.info])
             ELSE IF task[i].meta_requests = 0
             THEN TaskStep(i, t)
             ELSE TaskStep(i, Return(t, "FailGetDetails"))
    /\ UNCHANGED fs

\* process_single_task up to get_textbook_details.  args.token is Some in
\* every run (main sets it), so the TokenError return is not taken.
Resolve(i) ==
    /\ task[i].pc = "start"
    /\ \E resp \in MetaResponses :
         LET r == get_textbook_details(download_items[i].id, resp)
             t == [task[i] EXCEPT !.meta_requests = @ + 1,
                                  !.meta = IF r.ok THEN "ok" ELSE "failed"]
         IN  IF r.ok
             THEN TaskStep(i, [t EXCEPT !.pc = "resolved", !.details = r.info])
             ELSE TaskStep(i, Return(t, "FailGetDetails"))
    /\ UNCHANGED fs

\* Mutant of ExistingDecision: only a file verified against metadata is
\* skipped.
ExistingDecision_SuccessOnly(file, info) ==
    IF file.exists /\ validate_local_file(file, info) = "Success"
    THEN "Skipped"
    ELSE "download"

\* The skip decision of process_single_task on the file found at the
\* destination path: the status returned, or "download".
ExistingDecision(file, info) ==
    IF file.exists
         /\ validate_local_file(file, info) \in {"Success", "SuccessNoValidation"}
    THEN "Skipped"
    ELSE "download"

\* full_output_path.exists(), validate_local_file, then either the Skipped
\* return or the entry of download_file (attempt 0 sleeps nothing).
CheckExisting(i) ==
    /\ task[i].pc = "resolved"
    /\ LET t == task[i]
           dec == ExistingDecision(fs[t.details.filename], t.details)
       IN  IF dec = "Skipped"
           THEN TaskStep(i, Return(t, "Skipped"))
           ELSE TaskStep(i, [t EXCEPT !.pc = "request"])
    /\ UNCHANGED fs

\* Mutant of NextIteration: the loop runs over 0 ..= MAX_RETRIES.
NextIteration_Inclusive(t, e) ==
    IF t.attempt + 1 <= MAX_RETRIES
    THEN [t EXCEPT !.last_error = e, !.attempt = @ + 1, !.pc = "backoff"]
    ELSE [Dropped([t EXCEPT !.last_error = e]) EXCEPT !.pc = "done",
                                                      !.status = "NetworkError"]

\* The for loop of download_file after an attempt recorded error e: the next
\* iteration sleeps first; after the last one the block ends with
\* Err(last_error), which download_file turns into NetworkError.
NextIteration(t, e) ==
    IF t.attempt + 1 < MAX_RETRIES
    THEN [t EXCEPT !.last_error = e, !.attempt = @ + 1, !.pc = "backoff"]
    ELSE Return([t EXCEPT !.last_error = e, !.attempt = @ + 1], "NetworkError")

\* Mutant of ExitErr: the error leaves download_file as Err, which
\* process_single_task reports as UnexpectedError.
ExitErr_Propagated(t, e) == Return([t EXCEPT !.last_error = e], "UnexpectedError")

\* The retry block left by `?` with error e: no further iteration.
ExitErr(t, e) == Return([t EXCEPT !.last_error = e], "NetworkError")

\* tokio::time::sleep(wait_time) at the head of an iteration with attempt > 0
Backoff(i) ==
    /\ task[i].pc = "backoff"
    /\ TaskStep(i, [task[i] EXCEPT !.pc = "request",
                                   !.slept = Append(@, wait_time(task[i].attempt))])
    /\ UNCHANGED fs

Responses == {"ok", "unauthorized", "status_error", "transport_error"}

\* Mutant of OnResponse: a 401 is recorded and retried like any other status.
OnResponse_Retry401(t, r) ==
    CASE r = "ok" -> [t EXCEPT !.pc = "create"]
      [] r = "unauthorized" ->
            NextIteration([t EXCEPT !.got401 = TRUE], "status_error")
      [] OTHER -> NextIteration(t, r)

\* The match on the result of client.get(url).send() and error_for_status().
OnResponse(t, r) ==
    CASE r = "ok" -> [t EXCEPT !.pc = "create"]
      [] r = "unauthorized" -> Return([t EXCEPT !.got401 = TRUE], "TokenError")
      [] OTHER -> NextIteration(t, r)

\* Mutant of Request: the destination file is created before the response
\* is known.
Request_CreateFirst(i) ==
    /\ task[i].pc = "request"
    /\ \E r \in Responses :
           TaskStep(i, OnResponse([task[i] EXCEPT !.requests = @ + 1], r))
    /\ fs' = [fs EXCEPT ![task[i].details.filename] = FileOf(<<>>)]

\* One iteration of the retry loop up to the match on the response:
\* client.get(url).send() and error_for_status().
Request(i) ==
    /\ task[i].pc = "request"
    /\ \E r \in Responses :
           TaskStep(i, OnResponse([task[i] EXCEPT !.requests = @ + 1], r))
    /\ UNCHANGED fs

\* File::create(dest_path): truncates or creates the file, or fails.
Create(i) ==
    /\ task[i].pc = "create"
    /\ \/ /\ TaskStep(i, [task[i] EXCEPT !.pc = "stream"])
          /\ fs' = [fs EXCEPT ![task[i].details.filename] = FileOf(<<>>)]
       \/ /\ TaskStep(i, ExitErr(task[i], "io"))
          /\ UNCHANGED fs

\* A handle opened by File::create writes from offset 0 over what is there.
WriteAt0(data, chunks) ==
    chunks \o SubSeq(data, Len(chunks) + 1, Len(data))

\* The streaming loop and flush: the whole body is written, or k chunks of it
\* before chunk_result? or write_all()? leaves the retry block.
Stream(i) ==
    /\ task[i].pc = "stream"
    /\ LET t == task[i]
           f == t.details.filename
       IN  \E body \in Bodies :
             \/ /\ TaskStep(i, [t EXCEPT !.pc = "written", !.wrote = body])
                /\ fs' = [fs EXCEPT ![f] = FileOf(WriteAt0(@.data, body))]
             \/ \E k \in 0 .. Len(body) - 1, e \in {"stream_error", "io"} :
                  /\ TaskStep(i, ExitErr([t EXCEPT !.wrote = SubSeq(body, 1, k)], e))
                  /\ fs' = [fs EXCEPT ![f] = FileOf(WriteAt0(@.data, SubSeq(body, 1, k)))]

\* return validate_local_file(dest_path, info)
PostValidate(i) ==
    /\ task[i].pc = "written"
    /\ TaskStep(i, Return(task[i],
                          validate_local_file(fs[task[i].details.filename],
                                              task[i].details)))
    /\ UNCHANGED fs

\* The task panics at some point of its execution: the runtime catches the
\* unwind and join_all gets a JoinError for it.
Panic(i) ==
    /\ Live(task[i])
    /\ TaskStep(i, [Dropped(task[i]) EXCEPT !.pc = "panicked",
                                           !.last_error = "none"])
    /\ UNCHANGED fs

\* ------------------------------------------------- join and result summary
Statuses == {"Success", "SuccessNoValidation", "Skipped", "TokenError",
             "Md5ValidationFailed", "SizeValidationFailed", "NetworkError",
             "FailGetDetails", "UnexpectedError"}

\* The value the task of item i hands to join_all: Err for a panicked task,
\* else the tuple of process_single_task (its file name is empty after
\* FailGetDetails; the destination folder in front of it is left out).
TaskResult(i) ==
    LET t == task[i] IN
    [ok |-> t.pc = "done",
     original |-> download_items[i].original,
     filename |-> t.details.filename,
     status |-> t.status]

\* Mutant of AggregateOne: a join error is counted in stats but gets no
\* entry in failed_details.
AggregateOne_JoinErrorUnlisted(acc, res) ==
    IF res.ok
    THEN LET st == [acc.stats EXCEPT ![res.status] = @ + 1] IN
         IF res.status = "Skipped"
         THEN [acc EXCEPT !.stats = st,
                          !.skipped_details = Append(@, res.filename)]
         ELSE IF res.status \in {"Success", "SuccessNoValidation"}
         THEN [acc EXCEPT !.stats = st]
         ELSE [acc EXCEPT !.stats = st,
                          !.failed_details = Append(@, <<res.original, res.status>>)]
    ELSE [acc EXCEPT !.stats = [@ EXCEPT !["UnexpectedError"] = @ + 1]]

\* One iteration of the loop of process_download_results over res.
AggregateOne(acc, res) ==
    IF res.ok
    THEN LET st == [acc.stats EXCEPT ![res.status] = @ + 1] IN
         IF res.status = "Skipped"
         THEN [acc EXCEPT !.stats = st,
                          !.skipped_details = Append(@, res.filename)]
         ELSE IF res.status \in {"Success", "SuccessNoValidation"}
         THEN [acc EXCEPT !.stats = st]
         ELSE [acc EXCEPT !.stats = st,
                          !.failed_details = Append(@, <<res.original, res.status>>)]
    ELSE [acc EXCEPT !.stats = [@ EXCEPT !["UnexpectedError"] = @ + 1],
                     !.failed_details = Append(@, <<0, "Panic">>)]

RECURSIVE Aggregate(_, _)
Aggregate(acc, rs) ==
    IF rs = <<>> THEN acc ELSE Aggregate(AggregateOne(acc, Head(rs)), Tail(rs))

\* Mutant of process_download_results: successful_count leaves out the
\* items that ended as SuccessNoValidation.
process_download_results_VerifiedOnly(rs) ==
    LET acc == Aggregate([stats |-> [s \in Statuses |-> 0],
                          failed_details |-> <<>>,
                          skipped_details |-> <<>>], rs)
        successful_count == acc.stats["Success"]
        skipped_count == acc.stats["Skipped"]
        failed_count == Len(acc.failed_details)
    IN  [total |-> successful_count + skipped_count + failed_count,
         successful |-> successful_count,
         skipped |-> skipped_count,
         failed |-> failed_count,
         skipped_details |-> acc.skipped_details,
         failed_details |-> acc.failed_details]

process_download_results(rs) ==
    LET acc == Aggregate([stats |-> [s \in Statuses |-> 0],
                          failed_details |-> <<>>,
                          skipped_details |-> <<>>], rs)
        successful_count == acc.stats["Success"] + acc.stats["SuccessNoValidation"]
        skipped_count == acc.stats["Skipped"]
        failed_count == Len(acc.failed_details)
    IN  [total |-> successful_count + skipped_count + failed_count,
         successful |-> successful_count,
         skipped |-> skipped_count,
         failed |-> failed_count,
         skipped_details |-> acc.skipped_details,
         failed_details |-> acc.failed_details]

\* Mutant of AllJoined: the join is ready when the first task has finished.
AllJoined_First == \E i \in Items : Terminal(task[i])

\* join_all(tasks) is ready when every spawned task has finished.
AllJoined == \A i \in Items : Terminal(task[i])

\* The end of the spawning loop, join_all(tasks).await and
\* process_download_results(results).
JoinAll ==
    /\ mainPc = "spawn"
    /\ spawned = Len(download_items)
    /\ AllJoined
    /\ results' = [i \in Items |-> TaskResult(i)]
    /\ summary' = process_download_results(results')
    /\ mainPc' = "done"
    /\ UNCHANGED <<limit, download_items, fs0, fs, permits, spawned, task,
                   cli, probe>>

Next ==
    \/ Spawn
    \/ JoinAll
    \/ \E i \in Items :
         \/ Resolve(i)
         \/ CheckExisting(i)
         \/ Backoff(i)
         \/ Request(i)
         \/ Create(i)
         \/ Stream(i)
         \/ PostValidate(i)
         \/ Panic(i)

Spec == Init /\ [][Next]_vars

\* The steps the task of item i takes by itself (a panic is not one of them:
\* it may happen, nothing makes it happen).
TaskRun(i) ==
    \/ Resolve(i)
    \/ CheckExisting(i)
    \/ Backoff(i)
    \/ Request(i)
    \/ Create(i)
    \/ Stream(i)
    \/ PostValidate(i)

\* The run under the scheduling of the tokio runtime: main's loop and its
\* join go on when they can, and every spawned task is polled again when the
\* operation it awaits (request, sleep, file operation) has returned.
Fairness ==
    /\ WF_vars(Spawn)
    /\ WF_vars(JoinAll)
    /\ \A i \in 1 .. MaxItems : WF_vars(i \in Items /\ TaskRun(i))

SpecLive == Init /\ [][Next]_vars /\ Fairness

\* ------------------------------------------------ input collection (main)
\* A raw input is a bare UUID, a string that parses as a URL (with its query
\* pairs), or a string that is neither; a line of the input file may also be
\* blank or a comment.  Identifiers are 1, 2, ...; the value NoId of a query
\* pair is a value that does not match UUID_REGEX.
MaxInputs == 3

NoId == 0
ContentIds == {1, 2}
Pair(k, v) == [key |-> k, value |-> v]
Uuid(id) == [kind |-> "uuid", id |-> id, query |-> <<>>]
Url(q) == [kind |-> "url", id |-> NoId, query |-> q]
Junk == [kind |-> "junk", id |-> NoId, query |-> <<>>]
BlankLine == [kind |-> "blank", id |-> NoId, query |-> <<>>]
CommentLine == [kind |-> "comment", id |-> NoId, query |-> <<>>]

RawInputs ==
    {Uuid(id) : id \in ContentIds}
      \cup {Url(<<Pair("contentId", 1)>>),
            Url(<<Pair("contentId", NoId), Pair("contentId", 2)>>),
            Url(<<Pair("page", 1)>>),
            Junk}

\* find_map over url.query_pairs(): the first pair whose key is contentId
\* and whose value is a UUID.
RECURSIVE FindContentId(_)
FindContentId(query) ==
    IF query = <<>> THEN NoId
    ELSE IF Head(query).key = "contentId" /\ Head(query).value # NoId
         THEN Head(query).value
         ELSE FindContentId(Tail(query))

get_content_id(input) ==
    IF input.kind = "uuid" THEN input.id
    ELSE IF input.kind = "url" THEN FindContentId(input.query)
    ELSE NoId

\* The lines read_input_file keeps (lines are modelled trimmed).
read_input_file(lines) ==
    SelectSeq(lines, LAMBDA l : l.kind \notin {"blank", "comment"})

\* Mutant of add_unique_item: duplicates are recognised by the raw input,
\* not by the identifier.
add_unique_item_ByOriginal(acc, original) ==
    LET id == get_content_id(original) IN
    IF id = NoId THEN acc
    ELSE IF \A k \in 1 .. Len(acc.download_items) :
               acc.download_items[k].original # original
    THEN [download_items |-> Append(acc.download_items,
                                    [id |-> id, original |-> original]),
          processed_ids |-> acc.processed_ids \cup {id}]
    ELSE acc

\* The closure add_unique_item of collect_download_items.
add_unique_item(acc, original) ==
    LET id == get_content_id(original) IN
    IF id = NoId THEN acc
    ELSE IF id \notin acc.processed_ids
    THEN [download_items |-> Append(acc.download_items,
                                    [id |-> id, original |-> original]),
          processed_ids |-> acc.processed_ids \cup {id}]
    ELSE acc

RECURSIVE AddAll(_, _)
AddAll(acc, inputs) ==
    IF inputs = <<>> THEN acc
    ELSE AddAll(add_unique_item(acc, Head(inputs)), Tail(inputs))

CollectOk(items) == [ok |-> TRUE, error |-> "none", items |-> items]
CollectErr(e) == [ok |-> FALSE, error |-> e, items |-> <<>>]

\* Mutant of collect_download_items: an input without identifier is an error.
collect_download_items_Strict(c) ==
    LET lines == IF c.input_file = "readable" THEN read_input_file(c.lines) ELSE <<>>
        all == c.url \o c.content_id \o lines
        acc == AddAll([download_items |-> <<>>, processed_ids |-> {}], all)
    IN  IF c.input_file = "unreadable" THEN CollectErr("Io")
        ELSE IF acc.download_items = <<>>
                  \/ \E k \in 1 .. Len(all) : get_content_id(all[k]) = NoId
        THEN CollectErr("InvalidInput")
        ELSE CollectOk(acc.download_items)

\* collect_download_items: URLs, then IDs, then the lines of the input file
\* (whose read error is returned by `?`).
collect_download_items(c) ==
    LET a1 == AddAll([download_items |-> <<>>, processed_ids |-> {}], c.url)
        a2 == AddAll(a1, c.content_id)
        a3 == IF c.input_file = "readable"
              THEN AddAll(a2, read_input_file(c.lines))
              ELSE a2
    IN  IF c.input_file = "unreadable" THEN CollectErr("Io")
        ELSE IF a3.download_items = <<>> THEN CollectErr("InvalidInput")
        ELSE CollectOk(a3.download_items)

\* main before the spawning loop: the check that some input source is given,
\* then collect_download_items(..)?; an error ends the run (mainPc names it).
\* (The token is asked for in between; determine_output_dir is taken to
\* succeed.)
CollectItems ==
    /\ mainPc = "collect"
    /\ LET r == IF cli.url = <<>> /\ cli.content_id = <<>> /\ cli.input_file = "none"
                THEN CollectErr("InvalidInput")
                ELSE collect_download_items(cli)
       IN  IF r.ok
           THEN /\ download_items' = r.items
                /\ task' = [i \in 1 .. Len(r.items) |-> IdleTask]
                /\ mainPc' = "spawn"
           ELSE /\ mainPc' = r.error
                /\ UNCHANGED <<download_items, task>>
    /\ UNCHANGED <<limit, fs0, fs, permits, spawned, results, summary, cli, probe>>

FileLines == RawInputs \cup {BlankLine, CommentLine}

\* Command lines with a URLs, b IDs and an input file of c lines (no file,
\* or a file that cannot be opened, has no lines).
CliWith(a, b, c) ==
    [url : [1 .. a -> RawInputs],
     content_id : [1 .. b -> RawInputs],
     input_file : IF c = 0 THEN {"none", "unreadable", "readable"} ELSE {"readable"},
     lines : [1 .. c -> FileLines]]

\* Command lines with at most MaxInputs raw inputs over all sources.
CliInputs ==
    UNION {CliWith(n[1], n[2], n[3]) :
             n \in {m \in (0 .. MaxInputs) \X (0 .. MaxInputs) \X (0 .. MaxInputs) :
                      m[1] + m[2] + m[3] <= MaxInputs}}

InitCollect ==
    /\ limit \in 1 .. MaxLimit
    /\ cli \in CliInputs
    /\ download_items = <<>>
    /\ fs0 = [f \in Filenames |-> AbsentFile]
    /\ fs = fs0
    /\ permits = limit
    /\ spawned = 0
    /\ task = <<>>
    /\ mainPc = "collect"
    /\ results = <<>>
    /\ summary = NoSummary
    /\ probe = NoProbe

\* The run up to the spawning of the tasks.
NextCollect ==
    \/ CollectItems
    \/ Spawn

SpecCollect == InitCollect /\ [][NextCollect]_vars

\* ------------------------------------------- validate_local_file on its own
MaxFileLen == 2

\* Contents of at most MaxFileLen chunks.
ProbeContents == UNION {[1 .. k -> {1, 2}] : k \in 0 .. MaxFileLen}
ProbeFiles == {AbsentFile} \cup {FileOf(c) : c \in ProbeContents}
ProbeInfos ==
    [filename : {OldFilename},
     expected_md5 : {None} \cup {calculate_file_md5(c) : c \in ProbeContents},
     expected_size : {None} \cup (0 .. MaxFileLen)]

InitValidate ==
    /\ probe \in [file : ProbeFiles, info : ProbeInfos, status : {"none"}]
    /\ limit = 1
    /\ cli = NoCli
    /\ download_items = <<>>
    /\ fs0 = [f \in Filenames |-> IF f = probe.info.filename THEN probe.file ELSE AbsentFile]
    /\ fs = fs0
    /\ permits = limit
    /\ spawned = 0
    /\ task = <<>>
    /\ mainPc = "validate"
    /\ results = <<>>
    /\ summary = NoSummary

\* One call validate_local_file(path, info) on the file at path.
Validate ==
    /\ mainPc = "validate"
    /\ probe' = [probe EXCEPT !.status = validate_local_file(fs[probe.info.filename], probe.info)]
    /\ mainPc' = "validated"
    /\ UNCHANGED <<limit, download_items, fs0, fs, permits, spawned, task,
                   results, summary, cli>>

NextValidate == Validate

SpecValidate == InitValidate /\ [][NextValidate]_vars

\* ================================================================== claims
Holders == {i \in Items : Live(task[i])}
Downloading ==
    {i \in Items : task[i].pc \in {"backoff", "request", "create", "stream", "written"}}
FailureStatuses == {"TokenError", "Md5ValidationFailed", "SizeValidationFailed",
                    "NetworkError", "FailGetDetails", "UnexpectedError"}

\* C1: in every reachable state at most `limit` tasks hold a permit (are
\* spawned and have not finished), hence at most `limit` invocations of
\* download_file are active.
C1_AtMostLimitActive ==
    /\ Cardinality(Holders) <= limit
    /\ Cardinality(Downloading) <= limit

\* The limit is reached inside download_file while the spawning loop still
\* has an item to start.
C1_Witness ==
    /\ Cardinality(Downloading) = limit
    /\ spawned < Len(download_items)

\* C2: a task holds its permit from before metadata resolution until it
\* finishes, gives it back exactly once on every way of finishing (return
\* with any status, or panic), and when all tasks have finished all
\* `limit` permits are free again.
C2_PermitReleasedOnce ==
    /\ \A i \in Items :
         /\ task[i].pc = "idle" => task[i].released = 0
         /\ Live(task[i]) => task[i].released = 0
         /\ Terminal(task[i]) => task[i].released = 1
    /\ permits = limit - Cardinality(Holders)
    /\ (spawned = Len(download_items) /\ AllJoined) => permits = limit

\* All tasks have finished, one by a panic and one by exhausted retries.
C2_Witness ==
    /\ mainPc = "done"
    /\ permits = limit
    /\ \E i, j \in Items :
         /\ task[i].pc = "panicked"
         /\ task[j].status = "NetworkError"

\* C3: join_all yields exactly one result per submitted item, in item order,
\* and the total of process_download_results (successful + skipped +
\* failed) is the number of items; nothing is reported before.
C3_OneOutcomePerItem ==
    IF mainPc = "done"
    THEN /\ Len(results) = Len(download_items)
         /\ \A i \in Items : results[i].original = download_items[i].original
         /\ summary.total = Len(download_items)
         /\ summary.total = summary.successful + summary.skipped + summary.failed
    ELSE results = <<>> /\ summary = NoSummary

\* A summary over a join error and a successful download.
C3_Witness ==
    /\ mainPc = "done"
    /\ Len(download_items) = MaxItems
    /\ \E i, j \in Items :
         /\ ~results[i].ok
         /\ results[j].ok /\ results[j].status = "Success"

\* C4: one invocation of download_file issues at most MAX_RETRIES requests.
C4_AtMostMaxRetriesRequests ==
    \A i \in Items : task[i].requests <= MAX_RETRIES

\* A download that used all attempts.
C4_Witness ==
    \E i \in Items : task[i].requests = MAX_RETRIES /\ task[i].status = "NetworkError"

\* C5: nothing is slept before the first request, and request k >= 2 is
\* issued after exactly one sleep of RETRY_BASE_DELAY_MS * 2^(k-2) ms since
\* request k-1 (500 ms before the 2nd, 1000 ms before the 3rd).
C5_BackoffDelays ==
    \A i \in Items :
      LET t == task[i] IN
      /\ Len(t.slept) <= t.requests
      /\ t.requests >= 1 => Len(t.slept) >= t.requests - 1
      /\ (t.pc = "backoff" \/ t.pc = "done") => Len(t.slept) = t.requests - 1
                                                 \/ t.requests = 0
      /\ \A k \in 2 .. Len(t.slept) + 1 :
            t.slept[k - 1] = RETRY_BASE_DELAY_MS * 2 ^ (k - 2)
      /\ Len(t.slept) >= 1 => t.slept[1] = 500
      /\ Len(t.slept) >= 2 => t.slept[2] = 1000

\* A third request has been issued after both sleeps.
C5_Witness ==
    \E i \in Items : task[i].requests = 3 /\ task[i].slept = <<500, 1000>>

\* C6: once a transfer request was answered with 401 the task has ended
\* with TokenError and that request was its last action (no sleep and no
\* request after it); a 401 on the first attempt means one request and no
\* sleep at all.
C6_AuthErrorIsFinal ==
    \A i \in Items :
      LET t == task[i] IN
      t.got401 =>
        /\ t.pc = "done"
        /\ t.status = "TokenError"
        /\ Len(t.slept) = t.requests - 1
        /\ t.slept = <<>> => t.requests = 1

\* A 401 on the first attempt.
C6_Witness ==
    \E i \in Items :
      /\ task[i].got401
      /\ task[i].requests = 1
      /\ task[i].slept = <<>>
      /\ task[i].status = "TokenError"

\* C7 (as claimed): a download that ended as NetworkError on a transport or
\* HTTP-status error - connection error, non-401 status, or a transport
\* error while the body is streamed - has made all MAX_RETRIES attempts.
C7_TransportErrorsRetried ==
    \A i \in Items :
      (/\ task[i].status = "NetworkError"
       /\ task[i].last_error \in {"status_error", "transport_error", "stream_error"})
      => task[i].requests = MAX_RETRIES

\* C8: a step of process_single_task that finds the destination file
\* existing and validated as Success or SuccessNoValidation returns
\* Skipped: the task has issued no transfer request and slept nothing, does
\* not enter download_file, and the step leaves the directory unchanged.
C8_ValidExistingFileSkipped ==
    [][\A i \in Items :
         (/\ task[i].pc = "resolved"
          /\ task'[i].pc \notin {"resolved", "panicked"}
          /\ fs[task[i].details.filename].exists
          /\ validate_local_file(fs[task[i].details.filename], task[i].details)
               \in {"Success", "SuccessNoValidation"})
         => /\ task'[i].pc = "done"
            /\ task'[i].status = "Skipped"
            /\ task'[i].requests = 0
            /\ task'[i].slept = <<>>
            /\ fs' = fs]_vars

\* An item was skipped for a file that was there before the run and that no
\* task has touched.
C8_Witness ==
    \E i \in Items :
      /\ task[i].status = "Skipped"
      /\ task[i].requests = 0
      /\ fs0[task[i].details.filename].exists
      /\ fs = fs0

\* C9: the summary exists only when every task has reached a terminal
\* state (returned or panicked).
C9_SummaryAfterAllTasks ==
    (mainPc = "done" \/ summary # NoSummary \/ results # <<>>)
      => \A i \in Items : Terminal(task[i])

\* The summary of a run of MaxItems items.
C9_Witness ==
    /\ summary # NoSummary
    /\ summary.total = MaxItems

Failed(t) ==
    \/ t.pc = "panicked"
    \/ t.pc = "done" /\ t.status \in FailureStatuses

AllInputs ==
    cli.url \o cli.content_id
      \o (IF cli.input_file = "readable" THEN read_input_file(cli.lines) ELSE <<>>)

ExtractableIds ==
    {get_content_id(AllInputs[p]) : p \in 1 .. Len(AllInputs)} \ {NoId}

\* Position of the first input with identifier id.
FirstPos(id) ==
    CHOOSE p \in 1 .. Len(AllInputs) :
        /\ get_content_id(AllInputs[p]) = id
        /\ \A q \in 1 .. p - 1 : get_content_id(AllInputs[q]) # id

\* C11: the collected list has exactly one item per distinct extractable
\* identifier, ordered by the identifiers' first occurrences and carrying
\* the raw input of that first occurrence; hence no more tasks are started
\* than there are distinct identifiers.
C11_OneItemPerIdentifier ==
    mainPc = "spawn" =>
      /\ {download_items[k].id : k \in Items} = ExtractableIds
      /\ Len(download_items) = Cardinality(ExtractableIds)
      /\ \A k \in Items :
           download_items[k].original = AllInputs[FirstPos(download_items[k].id)]
      /\ \A k \in 1 .. Len(download_items) - 1 :
           FirstPos(download_items[k].id) < FirstPos(download_items[k + 1].id)
      /\ spawned <= Cardinality(ExtractableIds)

\* Three inputs, the last repeating the identifier of the first in another
\* form: two items, and the run has started both.
C11_Witness ==
    /\ mainPc = "spawn"
    /\ Len(AllInputs) = 3
    /\ get_content_id(AllInputs[3]) = get_content_id(AllInputs[1])
    /\ AllInputs[3] # AllInputs[1]
    /\ Len(download_items) = 2
    /\ spawned = 2

\* C12: inputs without identifier are left out without an error: the
\* collection ends with InvalidInput exactly if no input at all has an
\* identifier, and after an error no task is ever started.
C12_InvalidInputIffNoItem ==
    /\ mainPc # "collect" =>
         ((mainPc = "InvalidInput")
            <=> (cli.input_file # "unreadable" /\ ExtractableIds = {}))
    /\ mainPc = "spawn" => download_items # <<>>
    /\ mainPc \in {"InvalidInput", "Io"} =>
         /\ download_items = <<>>
         /\ spawned = 0
         /\ task = <<>>
         /\ ~ENABLED Spawn

\* A run that started a task although one of its inputs has no identifier.
C12_Witness ==
    /\ mainPc = "spawn"
    /\ spawned >= 1
    /\ \E p \in 1 .. Len(AllInputs) : get_content_id(AllInputs[p]) = NoId

\* ---- claims about validate_local_file, checked under SpecValidate
Md5Matches ==
    /\ probe.info.expected_md5 # None
    /\ calculate_file_md5(probe.file.data) = probe.info.expected_md5

SizeMatches ==
    /\ probe.info.expected_size # None
    /\ FileLen(probe.file.data) = probe.info.expected_size

\* C13: for an existing file the result is Success whenever the expected
\* checksum is present and matches, whatever the expected size; otherwise
\* Success when the expected size is present and matches; and it is
\* SuccessNoValidation exactly when neither value is present.
C13_VerifiedCases ==
    (probe.status # "none" /\ probe.file.exists) =>
      /\ Md5Matches => probe.status = "Success"
      /\ (~Md5Matches /\ SizeMatches) => probe.status = "Success"
      /\ (probe.status = "SuccessNoValidation")
           <=> (probe.info.expected_md5 = None /\ probe.info.expected_size = None)

\* An existing file with the expected checksum and another size than the
\* expected one, validated as Success.
C13_Witness ==
    /\ probe.status = "Success"
    /\ probe.file.exists
    /\ Md5Matches
    /\ probe.info.expected_size # None
    /\ ~SizeMatches

\* C14: a path that does not exist never validates as a success; an
\* existing file with metadata of which nothing matches validates as
\* Md5ValidationFailed if a checksum was expected, else SizeValidationFailed.
C14_FailureCases ==
    probe.status # "none" =>
      /\ ~probe.file.exists => probe.status \notin {"Success", "SuccessNoValidation"}
      /\ (/\ probe.file.exists
          /\ probe.info.expected_md5 # None \/ probe.info.expected_size # None
          /\ ~Md5Matches
          /\ ~SizeMatches)
           => probe.status = (IF probe.info.expected_md5 # None
                              THEN "Md5ValidationFailed"
                              ELSE "SizeValidationFailed")

\* A missing path validated although the metadata expect the empty file.
C14_Witness ==
    /\ probe.status = "SizeValidationFailed"
    /\ ~probe.file.exists
    /\ probe.info.expected_md5 = calculate_file_md5(<<>>)
    /\ probe.info.expected_size = 0

\* ---- claims about runs, checked under Spec
\* data is what a terminated transfer of body leaves: a strict prefix.
StrictPrefix(data, body) ==
    /\ Len(data) < Len(body)
    /\ \A k \in 1 .. Len(data) : data[k] = body[k]

\* The expected values of info, where present, are those of body.
MetadataOf(info, body) ==
    /\ info.expected_md5 \in {None, calculate_file_md5(body)}
    /\ info.expected_size \in {None, FileLen(body)}

\* C15: when the file at the destination is a strict prefix of the remote
\* file the resolved metadata describe, the step of process_single_task
\* that looks at it does not return Skipped but enters download_file.
C15_PartialFileNotAccepted ==
    [][\A i \in Items :
         (/\ task[i].pc = "resolved"
          /\ task'[i].pc \notin {"resolved", "panicked"}
          /\ fs[task[i].details.filename].exists
          /\ \E body \in Bodies :
               /\ StrictPrefix(fs[task[i].details.filename].data, body)
               /\ MetadataOf(task[i].details, body))
         => /\ task'[i].status # "Skipped"
            /\ task'[i].pc = "request"]_vars

\* The task holds the destination file open for writing, or is about to
\* create it.
Writing(i) == task[i].pc \in {"create", "stream"}

\* C16: two different items never resolve to the same destination file
\* name, so no two tasks create or write the same file at the same time.
C16_DistinctDestinations ==
    \A i, j \in Items :
      i # j =>
        /\ (task[i].details.filename # "" /\ task[j].details.filename # "")
             => task[i].details.filename # task[j].details.filename
        /\ ~(/\ Writing(i)
             /\ Writing(j)
             /\ task[i].details.filename = task[j].details.filename)

IsSuccessful(r) == r.ok /\ r.status \in {"Success", "SuccessNoValidation"}
IsSkipped(r) == r.ok /\ r.status = "Skipped"
IsFailed(r) == ~IsSuccessful(r) /\ ~IsSkipped(r)

\* C17: in the summary an item counts as successful iff its outcome is
\* Success or SuccessNoValidation, as skipped iff it is Skipped, and as
\* failed otherwise, a join error included; the skipped list has the file
\* name of each skipped item and the failure list one entry for each failed
\* item, both in the order of the submitted items.
C17_SummaryCountsAndLists ==
    mainPc = "done" =>
      LET sk == SelectSeq(results, IsSkipped)
          fl == SelectSeq(results, IsFailed)
      IN  /\ Len(results) = Len(download_items)
          /\ \A k \in Items :
               results[k].ok => results[k].original = download_items[k].original
          /\ summary.successful = Cardinality({k \in Items : IsSuccessful(results[k])})
          /\ summary.skipped = Cardinality({k \in Items : IsSkipped(results[k])})
          /\ summary.failed = Cardinality({k \in Items : IsFailed(results[k])})
          /\ summary.total = Len(download_items)
          /\ summary.skipped_details = [k \in 1 .. Len(sk) |-> sk[k].filename]
          /\ summary.failed_details =
               [k \in 1 .. Len(fl) |->
                  IF fl[k].ok THEN <<fl[k].original, fl[k].status>>
                  ELSE <<0, "Panic">>]

\* A run of two items, the first failed in validation after its transfer,
\* the second accepted without validation.
C17_Witness ==
    /\ mainPc = "done"
    /\ Len(results) = 2
    /\ results[1].ok /\ results[1].status = "Md5ValidationFailed"
    /\ results[2].ok /\ results[2].status = "SuccessNoValidation"
    /\ summary.successful = 1
    /\ summary.failed = 1
    /\ summary.skipped = 0

\* C18: every task makes at most one metadata request, exactly one once it
\* is past get_textbook_details; when that request failed the task has
\* ended as FailGetDetails with no file name resolved, no transfer request
\* and no backoff sleep, and a run in which every item's metadata request
\* failed has left the directory as it was.
C18_OneMetadataRequest ==
    /\ \A i \in Items :
         /\ task[i].meta_requests <= 1
         /\ task[i].pc \notin {"idle", "start", "panicked"}
              => task[i].meta_requests = 1
         /\ task[i].meta = "failed"
              => /\ task[i].pc = "done"
                 /\ task[i].status = "FailGetDetails"
                 /\ task[i].details = NoDetails
                 /\ task[i].requests = 0
                 /\ task[i].slept = <<>>
    /\ (\A i \in Items : task[i].meta = "failed") => fs = fs0

\* Both items of a run ended as FailGetDetails after one request each, with
\* a file in the directory.
C18_Witness ==
    /\ Len(download_items) = 2
    /\ \A i \in Items :
         /\ task[i].status = "FailGetDetails"
         /\ task[i].meta_requests = 1
    /\ fs0[OldFilename].exists
    /\ mainPc = "done"

\* C19: permits are handed out in the order of the item list: whenever the
\* task of an item has got its permit (and so whenever it has asked for
\* metadata), every earlier item's task has got its permit before.
C19_PermitsInItemOrder ==
    \A i, j \in Items :
      i < j =>
        /\ task[j].pc # "idle" => task[i].pc # "idle"
        /\ task[j].meta_requests > 0 => task[i].pc # "idle"

\* The first item's task runs with the only permit, the second waits.
C19_Witness ==
    /\ Len(download_items) = 2
    /\ limit = 1
    /\ permits = 0
    /\ Live(task[1])
    /\ task[1].meta_requests = 1
    /\ task[2].pc = "idle"

\* All attempts of the download of item i ended with a 401, another error
\* status or a transport error of send().
NoAttemptAnswered(i) ==
    /\ task[i].pc = "done"
    /\ \/ task[i].status = "TokenError"
       \/ /\ task[i].status = "NetworkError"
          /\ task[i].last_error \in {"status_error", "transport_error"}

\* When no attempt of item i got a success status and no other item has the
\* same destination, the destination file is as it was before the run.
UnansweredLeavesFile ==
    \A i \in Items :
      (/\ NoAttemptAnswered(i)
       /\ \A j \in Items \ {i} :
            task[j].details.filename # task[i].details.filename)
      => fs[task[i].details.filename] = fs0[task[i].details.filename]

\* C20: a task changes the directory only in steps after File::create was
\* reached, which it reaches only from a request answered with a success
\* status: every other step of a task leaves the directory unchanged, so a
\* download whose attempts all ended with a 401, another error status or a
\* connection error leaves its destination file as it was.
C20_NoCreateWithoutSuccessStatus ==
    [][/\ \A i \in Items :
            (task'[i] # task[i] /\ task[i].pc \notin {"create", "stream"})
              => fs' = fs
       /\ \A i \in Items :
            (task'[i] # task[i] /\ task'[i].pc = "create")
              => /\ task[i].pc = "request"
                 /\ task'[i].requests = task[i].requests + 1
       /\ UnansweredLeavesFile']_vars

\* A download that gave up after MAX_RETRIES refused connections although
\* the old file at its destination had failed validation: the old content
\* is still there.
C20_Witness ==
    \E i \in Items :
      /\ NoAttemptAnswered(i)
      /\ task[i].status = "NetworkError"
      /\ task[i].requests = MAX_RETRIES
      /\ Len(download_items) = 1
      /\ fs0[task[i].details.filename].exists
      /\ fs[task[i].details.filename] = fs0[task[i].details.filename]

\* ---- termination, checked under SpecLive
\* The spawning loop waits for a permit only while a task holds one.
WaitingHasHolder ==
    (mainPc = "spawn" /\ spawned < Len(download_items) /\ permits = 0)
      => \E i \in Items : Live(task[i])

RunEnded ==
    /\ mainPc = "done"
    /\ \A i \in Items : Terminal(task[i])
    /\ summary.total = Len(download_items)

\* C21: with a limit of at least 1 and fair scheduling, every item reaches a
\* terminal outcome and the summary is produced; and whenever the spawning
\* loop waits for a permit, some running task holds one.
C21_EveryRunEnds == []WaitingHasHolder /\ <>RunEnded

\* A run of two items under limit 1 has ended, the first item after
\* MAX_RETRIES requests and all backoff sleeps, the second by a panic.
C21_Witness ==
    /\ RunEnded
    /\ limit = 1
    /\ Len(download_items) = 2
    /\ task[1].requests = MAX_RETRIES
    /\ Len(task[1].slept) = MAX_RETRIES - 1
    /\ task[2].pc = "panicked"

\* ---- the statuses a task can end with, checked under Spec
DownloadFileStatuses ==
    {"NetworkError", "TokenError", "Success", "SuccessNoValidation",
     "Md5ValidationFailed", "SizeValidationFailed"}

\* No task that returned has the status UnexpectedError; one that entered
\* download_file has a status of download_file, NetworkError if the retry
\* block was left by an I/O or stream error; and the failure list of the summary
\* names UnexpectedError for no item, having one Panic entry for each task
\* that ended with a join error.
NoUnexpectedStatus ==
    /\ \A i \in Items :
         task[i].pc = "done" =>
           /\ task[i].status \in Statuses \ {"UnexpectedError"}
           /\ task[i].requests > 0 => task[i].status \in DownloadFileStatuses
           /\ task[i].last_error \in {"io", "stream_error"}
                => task[i].status = "NetworkError"
    /\ mainPc = "done" =>
         /\ \A k \in 1 .. Len(summary.failed_details) :
              summary.failed_details[k][2] # "UnexpectedError"
         /\ Cardinality({k \in 1 .. Len(summary.failed_details) :
                           summary.failed_details[k][2] = "Panic"})
              = Cardinality({i \in Items : task[i].pc = "panicked"})

\* C22: a task that does not panic never returns UnexpectedError:
\* download_file turns every error of its retry block into NetworkError and
\* otherwise returns TokenError or the very status of the validation after
\* the transfer, so the summary reports an unexpected failure only for join
\* errors.
C22_UnexpectedOnlyForJoinErrors ==
    [][/\ \A i \in Items :
            (task[i].pc = "written" /\ task'[i].pc = "done")
              => task'[i].status =
                   validate_local_file(fs[task[i].details.filename], task[i].details)
       /\ NoUnexpectedStatus']_vars

\* A run has ended in which one task's File::create or stream failed with
\* an I/O error, reported as NetworkError, and the other task panicked.
C22_Witness ==
    /\ mainPc = "done"
    /\ \E i, j \in Items :
         /\ task[i].pc = "done"
         /\ task[i].last_error = "io"
         /\ task[i].status = "NetworkError"
         /\ task[j].pc = "panicked"
    /\ \E k \in 1 .. Len(summary.failed_details) :
         summary.failed_details[k][2] = "Panic"
====
